---- MODULE Spec2Model ----
(***************************************************************************)
(* Model of Notebooks/ECG_demo/scripts/recordings.py: the ECGRecordings    *)
(* repository (annotation table, is_used bookkeeping, provide_data) and    *)
(* the beat / segment pickers it dispatches to.                            *)
(*                                                                         *)
(* Conventions                                                             *)
(*  - A beat identifier is the label of its row in the annotation table    *)
(*    (the DataFrame index); the table holds the rows 1..Len(table) in     *)
(*    index order, so a frame derived from it is a sequence of ids.        *)
(*  - A random draw of the code is a set of possible results; an action    *)
(*    picks one of them with \E.                                           *)
(*  - A result record carries exc: "none" or the name of the exception     *)
(*    that leaves the function.                                            *)
(*  - Class weights are integers; round() and floor() are computed         *)
(*    exactly on the quotients.                                            *)
(***************************************************************************)
EXTENDS Integers, Sequences, FiniteSets, TLC

VARIABLES
    annotations,   \* self.annotations: sequence of rows, is_used included
    columns,       \* the column names of self.annotations
    ecg_data,      \* self.ecg_data: the signal buffer, one value per sample
    pc,            \* "idle", or "new_style" inside _pick_new_style_segments
    call,          \* arguments of the provide_data call in progress / last made
    picker,        \* the picker the call dispatched to
    exc,           \* how the last call ended: "none" or the exception raised
    selection,     \* returned annotation subset: rows with the added columns
    signal,        \* returned signal slice
    ns,            \* locals of _pick_new_style_segments while pc = "new_style"
    hist,          \* history: is_used before the call, beats returned so far
    fn,            \* a utility function called on its own: its name and arguments
    out            \* what that function returned, or the locals of its loop

vars == <<annotations, columns, ecg_data, pc, call, picker, exc, selection, signal, ns, hist, fn, out>>

(***************************************************************************)
(* Bounds of the model                                                     *)
(***************************************************************************)
\* number of rows of the annotation table
NumRows == 3

\* largest num_beats a call asks for
MaxNumBeats == 3

\* largest min_len_segment / max_len_segment a call passes
MaxLen == 2

\* largest value of extend
MaxExtend == 2

(***************************************************************************)
(* Sequences and sets                                                      *)
(***************************************************************************)
Range(s) == {s[i] : i \in DOMAIN s}

Min2(a, b) == IF a <= b THEN a ELSE b

Max2(a, b) == IF a >= b THEN a ELSE b

RECURSIVE SeqSum(_)
SeqSum(s) == IF s = <<>> THEN 0 ELSE s[1] + SeqSum(Tail(s))

RECURSIVE Flatten(_)
Flatten(ss) == IF ss = <<>> THEN <<>> ELSE ss[1] \o Flatten(Tail(ss))

RECURSIVE SumOver(_, _)
SumOver(f, S) ==
    IF S = {} THEN 0
    ELSE LET x == CHOOSE y \in S : TRUE IN f[x] + SumOver(f, S \ {x})

\* s[a:b] of Python for 0 <= a, b (0-based, end exclusive, clamped to the length)
Slice(s, a, b) ==
    LET hi == Min2(b, Len(s))
    IN  IF a >= hi THEN <<>> ELSE SubSeq(s, a + 1, hi)

\* the sequence without its element at position k (list.pop(k), 1-based)
RemoveAtKeepsAll(s, k) == s

RemoveAt(s, k) == SubSeq(s, 1, k - 1) \o SubSeq(s, k + 1, Len(s))

\* the sub-sequence of s whose elements satisfy membership in S, order kept
RECURSIVE SelectIn(_, _)
SelectIn(s, S) ==
    IF s = <<>> THEN <<>>
    ELSE IF s[1] \in S THEN <<s[1]>> \o SelectIn(Tail(s), S)
    ELSE SelectIn(Tail(s), S)

\* every sequence of n distinct elements of S (a draw without replacement)
RECURSIVE Arrangements(_, _)
Arrangements(S, n) ==
    IF n = 0 THEN {<<>>}
    ELSE UNION {{<<x>> \o t : t \in Arrangements(S \ {x}, n - 1)} : x \in S}

\* every ordering of the elements at the positions of s (np.random.shuffle)
Shuffles(s) == {[i \in 1..Len(s) |-> s[p[i]]] : p \in Arrangements(1..Len(s), Len(s))}

\* every sequence of n elements of S (a draw with replacement)
Tuples(S, n) == [1..n -> S]

(***************************************************************************)
(* Optional arguments: None is the empty sequence, a value v is <<v>>      *)
(***************************************************************************)
IsNone(x) == x = <<>>

Some(v) == <<v>>

Val(x) == x[1]

(***************************************************************************)
(* Frames over the annotation table                                        *)
(* annot is the table; a frame is the sequence of the ids of its rows.     *)
(***************************************************************************)
\* annotations[annotations.target == tgt]
RowsOfAnyTarget(annot, ids, tgt) == ids

RowsOfTarget(annot, ids, tgt) == SelectIn(ids, {i \in Range(ids) : annot[i].target = tgt})

\* annotations[annotations.recording == rec]
RowsOfRecording(annot, ids, rec) == SelectIn(ids, {i \in Range(ids) : annot[i].recording = rec})

\* np.unique(annotations.target)
all_targets(annot, ids) == {annot[i].target : i \in Range(ids)}

\* the counts np.unique(..., return_counts=True) gives for the class tgt
counts_tgt(annot, ids, tgt) == Cardinality({k \in DOMAIN ids : annot[ids[k]].target = tgt})

\* a filter names columns and, for each, the listed values
NoFilter == [cols |-> {}, target |-> {}, recording |-> {}, is_used |-> {}]

DefaultExclude == [cols |-> {"is_used"}, target |-> {}, recording |-> {}, is_used |-> {TRUE}]

\* ECGRecordings._filter_data: a row stays if it matches every include
\* category and no exclude category
FilterKeepNoExclude(row, include, exclude) == \A c \in include.cols : row[c] \in include[c]

FilterKeep(row, include, exclude) ==
    /\ \A c \in include.cols : row[c] \in include[c]
    /\ \A c \in exclude.cols : row[c] \notin exclude[c]

_filter_data(annot, include, exclude) ==
    SelectIn([i \in 1..Len(annot) |-> i],
             {i \in 1..Len(annot) : FilterKeep(annot[i], include, exclude)})

(***************************************************************************)
(* _determine_beat_counts: the count allocator                             *)
(***************************************************************************)
\* np.round(n / d) for n >= 0, d > 0: to nearest, a half goes to the even side
RoundHalfEven(n, d) ==
    LET q == n \div d
        r == n % d
    IN  IF 2 * r < d THEN q
        ELSE IF 2 * r > d THEN q + 1
        ELSE IF q % 2 = 0 THEN q ELSE q + 1

TpNone == [kind |-> "None", w |-> <<>>]

TpUniform == [kind |-> "uniform", w |-> <<>>]

TpDict(w) == [kind |-> "dict", w |-> w]

\* any other value, a string other than "uniform" for instance
TpOther == [kind |-> "other", w |-> <<>>]

\* the counts before the residual is applied (lines 906-922); the keys of the
\* result are the present classes (None, "uniform") or the keys of the mapping
BaseCounts(num_beats, annot, ids, target_probs) ==
    LET present == all_targets(annot, ids)
    IN  IF target_probs.kind = "None"
        THEN [t \in present |-> (num_beats * counts_tgt(annot, ids, t)) \div Len(ids)]
        ELSE IF target_probs.kind = "uniform"
        THEN [t \in present |-> num_beats \div Cardinality(present)]
        ELSE LET norm == SumOver(target_probs.w, DOMAIN target_probs.w)
             IN  [t \in DOMAIN target_probs.w |->
                     RoundHalfEven(target_probs.w[t] * num_beats, norm)]

\* random.choices(keys, k): every way to hand k single beats to the keys;
\* k <= 0 hands out nothing
HandOut(base, k) ==
    IF k <= 0 THEN {base}
    ELSE {[t \in DOMAIN base |-> base[t] + add[t]] :
            add \in {a \in [DOMAIN base -> 0..k] : SumOver(a, DOMAIN base) = k}}

\* lines 924-932: the residual goes to class 0 when it is a key, else it is
\* handed out at random
ResidualNoZeroClass(base, diff_beats) ==
    IF diff_beats > 0 /\ DOMAIN base = {}
    THEN {[exc |-> "IndexError", counts |-> base]}
    ELSE {[exc |-> "none", counts |-> c] : c \in HandOut(base, diff_beats)}

ApplyResidual(base, diff_beats) ==
    IF 0 \in DOMAIN base
    THEN {[exc |-> "none", counts |-> [base EXCEPT ![0] = @ + diff_beats]]}
    ELSE ResidualNoZeroClass(base, diff_beats)

\* include_zero_prob is False at every call site of provide_data
_determine_beat_counts(num_beats, annot, ids, target_probs) ==
    IF target_probs.kind = "other"
    THEN {[exc |-> "TypeError", counts |-> <<>>]}
    ELSE IF target_probs.kind = "uniform" /\ ids = <<>>
    THEN {[exc |-> "ZeroDivisionError", counts |-> <<>>]}
    ELSE LET base == BaseCounts(num_beats, annot, ids, target_probs)
         IN  ApplyResidual(base, num_beats - SumOver(base, DOMAIN base))

(***************************************************************************)
(* _determine_seg_lengths: the segment-length planner                      *)
(***************************************************************************)
\* the kept prefixes of the drawn lengths: every length in min..max, the sum
\* at most budget, and the next drawn length would pass the budget
RECURSIVE LengthPrefixes(_, _, _)
LengthPrefixes(budget, min_len_segment, max_len_segment) ==
    (IF budget < max_len_segment THEN {<<>>} ELSE {})
    \cup UNION {{<<l>> \o rest : rest \in LengthPrefixes(budget - l, min_len_segment, max_len_segment)} :
                    l \in {x \in min_len_segment..max_len_segment : x <= budget}}

LastSegmentNoMinimum(min_len_segment, num_missing) == num_missing

LastSegment(min_len_segment, num_missing) == Max2(min_len_segment, num_missing)

_determine_seg_lengths(num_beats_total, min_len_segment, max_len_segment) ==
    IF num_beats_total <= max_len_segment THEN {<<min_len_segment>>}
    ELSE {LET num_missing == num_beats_total - SeqSum(segments)
          IN  IF num_missing > 0
              THEN Append(segments, LastSegment(min_len_segment, num_missing))
              ELSE segments :
            segments \in LengthPrefixes(num_beats_total, min_len_segment, max_len_segment) \ {<<>>}}

\* np.split(beats, np.cumsum(seg_lengths[:-1])): one piece per planned
\* length, cut where the plan says, the last piece taking the rest
SplitByLengths(beats, seg_lengths) ==
    LET n == Len(seg_lengths)
        Cut(k) == SeqSum(SubSeq(seg_lengths, 1, k))
    IN  [k \in 1..n |->
            IF k = n THEN Slice(beats, Cut(n - 1), Len(beats))
            ELSE Slice(beats, Cut(k - 1), Cut(k))]

(***************************************************************************)
(* _pick_target_beats and _pick_beats: the plain draw                      *)
(***************************************************************************)
\* np.random.choice(index, size=num_beats, replace=False) inside try/except:
\* a negative size is re-raised, too few beats gives all of them
_pick_target_beats(target, num_beats, annot, ids) ==
    LET annot_tgt == RowsOfTarget(annot, ids, target)
    IN  IF num_beats < 0 THEN {[exc |-> "ValueError", beats |-> <<>>]}
        ELSE IF Len(annot_tgt) < num_beats THEN {[exc |-> "none", beats |-> annot_tgt]}
        ELSE {[exc |-> "none", beats |-> b] : b \in Arrangements(Range(annot_tgt), num_beats)}


\* what a picker hands back to provide_data: beat_indices and ids_segment
\* (has_segs is FALSE where the code leaves ids_segment = None)
Picked(beats) == [exc |-> "none", beat_indices |-> beats, has_segs |-> FALSE, ids_segment |-> <<>>]

Raised(e) == [exc |-> e, beat_indices |-> <<>>, has_segs |-> FALSE, ids_segment |-> <<>>]

\* lines 362-366: the beats of every class of beat_counts, one class after
\* the other; an exception of _pick_target_beats leaves the loop
RECURSIVE CollectTargetBeats(_, _, _, _)
CollectTargetBeats(keys, beat_counts, annot, ids) ==
    IF keys = {} THEN {[exc |-> "none", beats |-> <<>>]}
    ELSE LET tgt == CHOOSE t \in keys : \A u \in keys : t <= u
         IN  UNION {IF first.exc # "none" THEN {first}
                    ELSE {IF rest.exc # "none" THEN rest
                          ELSE [exc |-> "none", beats |-> first.beats \o rest.beats] :
                            rest \in CollectTargetBeats(keys \ {tgt}, beat_counts, annot, ids)} :
                      first \in _pick_target_beats(tgt, beat_counts[tgt], annot, ids)}

\* line 355: np.random.choice(annotations.index, size=num_beats) draws with
\* replacement (the default of numpy) and refuses an empty frame
DrawProportional(num_beats, ids) ==
    IF ids = <<>> /\ num_beats > 0 THEN {Raised("ValueError")}
    ELSE {Picked(b) : b \in Tuples(Range(ids), num_beats)}

DrawByCounts(num_beats, annot, ids, target_probs) ==
    UNION {IF bc.exc # "none" THEN {Raised(bc.exc)}
           ELSE UNION {IF col.exc # "none" THEN {Raised(col.exc)}
                       ELSE {Picked(b) : b \in Shuffles(col.beats)} :
                         col \in CollectTargetBeats(DOMAIN bc.counts, bc.counts, annot, ids)} :
             bc \in _determine_beat_counts(num_beats, annot, ids, target_probs)}

_pick_beats(num_beats, annot, ids, target_probs) ==
    IF target_probs.kind = "None" THEN DrawProportional(num_beats, ids)
    ELSE DrawByCounts(num_beats, annot, ids, target_probs)

(***************************************************************************)
(* Segments: shuffling and flattening (lines 733-742, 791-800, 574-583,    *)
(* 471-480)                                                                *)
(***************************************************************************)
\* segment_ids_full: the position of its segment (0-based), once per beat
SegmentIds(segs) == Flatten([k \in DOMAIN segs |-> [j \in DOMAIN segs[k] |-> k - 1]])

FinishSegments(collected_segments) ==
    {[exc |-> "none", beat_indices |-> Flatten(sh), has_segs |-> TRUE,
      ids_segment |-> SegmentIds(sh)] : sh \in Shuffles(collected_segments)}

(***************************************************************************)
(* split_at_discontinuity and _pick_cont_segments_inner                    *)
(***************************************************************************)
\* does position k of seq start a new piece (np.diff(seq) != 1)
IsDiscontinuousBuggy(seq, k) == k > 1 /\ seq[k] - seq[k - 1] < 1

IsDiscontinuous(seq, k) == k > 1 /\ seq[k] - seq[k - 1] # 1

\* np.split(seq, np.where(is_discontinuous)[0]) for a non-empty seq
RECURSIVE SplitFrom(_, _, _)
SplitFrom(seq, k, piece) ==
    IF k > Len(seq) THEN <<piece>>
    ELSE IF IsDiscontinuous(seq, k) THEN <<piece>> \o SplitFrom(seq, k + 1, <<seq[k]>>)
    ELSE SplitFrom(seq, k + 1, Append(piece, seq[k]))

split_at_discontinuity(seq) == SplitFrom(seq, 1, <<>>)

\* the sequences of at least `least` elements, order kept
RECURSIVE LongEnough(_, _)
LongEnough(segs, least) ==
    IF segs = <<>> THEN <<>>
    ELSE IF Len(segs[1]) >= least THEN <<segs[1]>> \o LongEnough(Tail(segs), least)
    ELSE LongEnough(Tail(segs), least)

\* lines 822-833: per recording (ascending), the runs of at least
\* min_len_segment beats
RECURSIVE RunsOfRecordings(_, _, _, _)
RunsOfRecordings(recs, annot, ids, min_len_segment) ==
    IF recs = {} THEN <<>>
    ELSE LET rec == CHOOSE r \in recs : \A q \in recs : r <= q
         IN  LongEnough(split_at_discontinuity(RowsOfRecording(annot, ids, rec)), min_len_segment)
             \o RunsOfRecordings(recs \ {rec}, annot, ids, min_len_segment)

available_segs_init(annot, ids, min_len_segment) ==
    RunsOfRecordings({annot[i].recording : i \in Range(ids)}, annot, ids, min_len_segment)

\* lines 854-858: np.random.randint(low, high) draws from low..high-1 and
\* raises ValueError (caught, line 859) when that range is empty
SegLenChoices(len_sublist, min_len_segment, max_len_segment) ==
    min_len_segment .. (Min2(max_len_segment, len_sublist - min_len_segment) - 1)

\* lines 863-868: the start is the front, the back, or a middle point
StartChoices(len_sublist, len_seg, min_len_segment) ==
    {0, len_sublist - len_seg}
    \cup (min_len_segment .. (len_sublist - len_seg - min_len_segment - 1))

\* line 876: a remainder goes back to the pool only if longer than max_len_segment
Remainders(sl0, sl1, max_len_segment) ==
    (IF Len(sl0) > max_len_segment THEN <<sl0>> ELSE <<>>)
    \o (IF Len(sl1) > max_len_segment THEN <<sl1>> ELSE <<>>)

\* one pass of the while loop (lines 836-876) with the run at position k
ContIteration(st, k, min_len_segment, max_len_segment) ==
    LET sublist == st.available_segs[k]
        rest == RemoveAt(st.available_segs, k)
        n == Len(sublist)
    IN  IF n <= max_len_segment
        THEN LET len_seg == Min2(n, st.num_beats)
             IN  {[num_beats |-> st.num_beats - len_seg,
                   available_segs |-> rest,
                   collected_segments |-> Append(st.collected_segments, Slice(sublist, 0, len_seg))]}
        ELSE IF SegLenChoices(n, min_len_segment, max_len_segment) = {}
        THEN {[st EXCEPT !.available_segs = rest]}
        ELSE {[num_beats |-> st.num_beats - len_seg,
               available_segs |-> rest \o Remainders(Slice(sublist, 0, idx_start),
                                                     Slice(sublist, idx_start + len_seg, n),
                                                     max_len_segment),
               collected_segments |-> Append(st.collected_segments,
                                             Slice(sublist, idx_start, idx_start + len_seg))] :
                <<len_seg, idx_start>> \in
                    UNION {{<<l, i>> : i \in StartChoices(n, l, min_len_segment)} :
                             l \in SegLenChoices(n, min_len_segment, max_len_segment)}}

ContLoopDone(st) == st.num_beats <= 0 \/ st.available_segs = <<>>

ContLoopStep(st, min_len_segment, max_len_segment) ==
    UNION {ContIteration(st, k, min_len_segment, max_len_segment) : k \in DOMAIN st.available_segs}

RECURSIVE ContLoop(_, _, _)
ContLoop(st, min_len_segment, max_len_segment) ==
    IF ContLoopDone(st) THEN {st.collected_segments}
    ELSE UNION {ContLoop(nxt, min_len_segment, max_len_segment) :
                  nxt \in ContLoopStep(st, min_len_segment, max_len_segment)}

_pick_cont_segments_inner(num_beats, annot, ids, min_len_segment, max_len_segment) ==
    ContLoop([num_beats |-> num_beats,
              available_segs |-> available_segs_init(annot, ids, min_len_segment),
              collected_segments |-> <<>>],
             min_len_segment, max_len_segment)

\* target_probs is ignored but for a warning
_pick_cont_segments(num_beats, annot, ids, min_len_segment, max_len_segment) ==
    UNION {FinishSegments(col) :
             col \in _pick_cont_segments_inner(num_beats, annot, ids, min_len_segment, max_len_segment)}

\* lines 783-789: the segments of every class of beat_counts
RECURSIVE SameClassSegments(_, _, _, _, _, _)
SameClassSegments(keys, beat_counts, annot, ids, min_len_segment, max_len_segment) ==
    IF keys = {} THEN {<<>>}
    ELSE LET tgt == CHOOSE t \in keys : \A u \in keys : t <= u
         IN  {first \o rest :
                first \in _pick_cont_segments_inner(beat_counts[tgt], annot,
                              RowsOfTarget(annot, ids, tgt), min_len_segment, max_len_segment),
                rest \in SameClassSegments(keys \ {tgt}, beat_counts, annot, ids,
                                           min_len_segment, max_len_segment)}

_pick_cont_segments_sameclass(num_beats, annot, ids, target_probs, min_len_segment, max_len_segment) ==
    UNION {IF bc.exc # "none" THEN {Raised(bc.exc)}
           ELSE UNION {FinishSegments(col) :
                         col \in SameClassSegments(DOMAIN bc.counts, bc.counts, annot, ids,
                                                   min_len_segment, max_len_segment)} :
             bc \in _determine_beat_counts(num_beats, annot, ids, target_probs)}


(***************************************************************************)
(* _relative_counts, _relative_counts_min and _pick_category_segments      *)
(***************************************************************************)
\* every vector over the positions idx that is 0 outside pos and sums to total
CountVectors(idx, pos, total) ==
    {c \in [idx -> 0..total] : SumOver(c, idx) = total /\ \A i \in idx \ pos : c[i] = 0}

\* _relative_counts(num_total, distribution) for the distribution that is
\* positive exactly at pos: np.random.choice(probs.size, size=num_total, p=probs).
\* An empty p is refused. When no entry is positive p is all NaN (0/0) and
\* num_total is 0: numpy refuses NaN probabilities from 1.17 on and returns the
\* empty draw before, so both results are kept.
_relative_counts(num_total, idx, pos) ==
    IF idx = {} THEN {[exc |-> "ValueError", counts |-> <<>>]}
    ELSE IF pos = {}
    THEN {[exc |-> "ValueError", counts |-> <<>>],
          [exc |-> "none", counts |-> [i \in idx |-> 0]]}
    ELSE {[exc |-> "none", counts |-> c] : c \in CountVectors(idx, pos, num_total)}

\* lines 606-608: np.clip(d - mean(d) * num_used / num_total, 0, None) is
\* positive at i iff d[i] * n * num_total > sum(d) * num_used
PositiveRemaining(distribution, nonzero, num_used, num_total) ==
    {i \in nonzero : distribution[i] * Cardinality(nonzero) * num_total
                        > SumOver(distribution, nonzero) * num_used}

\* a negative num_total asks np.random.choice (line 601) for more positions
\* than there are: ValueError
_relative_counts_min(num_total, distribution, min_count) ==
    LET full_size == Len(distribution)
        num_nonzero == Min2(num_total \div min_count, full_size)
    IN  IF num_total < 0 THEN {[exc |-> "ValueError", counts |-> <<>>]}
        ELSE UNION {LET num_used == num_nonzero * min_count
                    IN  {IF r.exc # "none" THEN r
                         ELSE [exc |-> "none",
                               counts |-> [i \in 1..full_size |->
                                             IF i \in nonzero THEN r.counts[i] + min_count ELSE 0]] :
                           r \in _relative_counts(num_total - num_used, nonzero,
                                     PositiveRemaining(distribution, nonzero, num_used, num_total))} :
                      nonzero \in {z \in SUBSET (1..full_size) : Cardinality(z) = num_nonzero}}

SegsOk(segs) == [exc |-> "none", segs |-> segs]

SegsRaised(e) == [exc |-> e, segs |-> <<>>]

\* lines 524-530: the segments of one class when only the target has to match
TargetSegments(tgt, counts, annot, ids, min_len_segment, max_len_segment) ==
    UNION {IF b.exc # "none" THEN {SegsRaised(b.exc)}
           ELSE {SegsOk(SplitByLengths(b.beats, seg_lengths)) :
                   seg_lengths \in _determine_seg_lengths(counts, min_len_segment, max_len_segment)} :
             b \in _pick_target_beats(tgt, counts, annot, ids)}

\* lines 555-567: the segments drawn in one recording; the draw without
\* replacement (line 560) raises ValueError when it asks for more beats than
\* the recording has of the class
RecordingSegments(rec_beats, n_beats, min_len_segment, max_len_segment) ==
    IF n_beats <= 0 THEN {SegsOk(<<>>)}
    ELSE UNION {IF SeqSum(seg_sizes) > Len(rec_beats) THEN {SegsRaised("ValueError")}
                ELSE {SegsOk(SplitByLengths(beat_idcs, seg_sizes)) :
                        beat_idcs \in Arrangements(Range(rec_beats), SeqSum(seg_sizes))} :
                  seg_sizes \in _determine_seg_lengths(n_beats, min_len_segment, max_len_segment)}

\* the loop of line 553 from position k of useable_recordings on
RECURSIVE RecordingsLoop(_, _, _, _, _, _, _)
RecordingsLoop(k, useable_recordings, beats_per_rec, annot, available_beats, min_len_segment, max_len_segment) ==
    IF k > Len(useable_recordings) THEN {SegsOk(<<>>)}
    ELSE UNION {IF first.exc # "none" THEN {first}
                ELSE {IF rest.exc # "none" THEN rest ELSE SegsOk(first.segs \o rest.segs) :
                        rest \in RecordingsLoop(k + 1, useable_recordings, beats_per_rec, annot,
                                     available_beats, min_len_segment, max_len_segment)} :
                  first \in RecordingSegments(
                                RowsOfRecording(annot, available_beats, useable_recordings[k]),
                                beats_per_rec[k], min_len_segment, max_len_segment)}

\* the values of a set of integers in ascending order
RECURSIVE Sorted(_)
Sorted(S) ==
    IF S = {} THEN <<>>
    ELSE LET m == CHOOSE x \in S : \A y \in S : x <= y IN <<m>> \o Sorted(S \ {m})

\* line 542: a recording is used only with more than min_len_segment beats
HasSufficientBeats(recording_size, min_len_segment) == recording_size > min_len_segment

\* lines 534-567: the segments of one class when target and recording match
TargetRecordingSegments(tgt, num_beats_tgt, annot, ids, min_len_segment, max_len_segment) ==
    LET available_beats == RowsOfTarget(annot, ids, tgt)
        size(rec) == Len(RowsOfRecording(annot, available_beats, rec))
        useable_recordings ==
            Sorted({r \in {annot[i].recording : i \in Range(available_beats)} :
                      HasSufficientBeats(size(r), min_len_segment)})
        recording_sizes == [k \in DOMAIN useable_recordings |-> size(useable_recordings[k])]
    IN  UNION {IF per_rec.exc # "none" THEN {SegsRaised(per_rec.exc)}
               ELSE RecordingsLoop(1, useable_recordings, per_rec.counts, annot, available_beats,
                                   min_len_segment, max_len_segment) :
                 per_rec \in _relative_counts_min(num_beats_tgt, recording_sizes, min_len_segment)}

\* the loop over beat_counts.items() of either branch
RECURSIVE CategoryLoop(_, _, _, _, _, _, _)
CategoryLoop(keys, beat_counts, with_recording, annot, ids, min_len_segment, max_len_segment) ==
    IF keys = {} THEN {SegsOk(<<>>)}
    ELSE LET tgt == CHOOSE t \in keys : \A u \in keys : t <= u
             one == IF with_recording
                    THEN TargetRecordingSegments(tgt, beat_counts[tgt], annot, ids,
                                                 min_len_segment, max_len_segment)
                    ELSE TargetSegments(tgt, beat_counts[tgt], annot, ids,
                                        min_len_segment, max_len_segment)
         IN  UNION {IF first.exc # "none" THEN {first}
                    ELSE {IF rest.exc # "none" THEN rest ELSE SegsOk(first.segs \o rest.segs) :
                            rest \in CategoryLoop(keys \ {tgt}, beat_counts, with_recording, annot,
                                         ids, min_len_segment, max_len_segment)} :
                      first \in one}

\* line 521 / 531 / 568: the supported values of match_segments
MatchSupported(match_segments) ==
    match_segments = {"target"} \/ match_segments = {"target", "recording"}

_pick_category_segments(num_beats, annot, ids, target_probs, match_segments, min_len_segment, max_len_segment) ==
    UNION {IF bc.exc # "none" THEN {Raised(bc.exc)}
           ELSE IF ~MatchSupported(match_segments) THEN {Raised("ValueError")}
           ELSE UNION {IF col.exc # "none" THEN {Raised(col.exc)} ELSE FinishSegments(col.segs) :
                         col \in CategoryLoop(DOMAIN bc.counts, bc.counts,
                                              match_segments = {"target", "recording"},
                                              annot, ids, min_len_segment, max_len_segment)} :
             bc \in _determine_beat_counts(num_beats, annot, ids, target_probs)}


(***************************************************************************)
(* _pick_new_style_segments: the density-constrained picker, one pass of   *)
(* its while loop at a time                                                *)
(***************************************************************************)
num_parts == 8

\* lines 413-416 with integer weights: int(np.round(prob * num_beats) / normalize)
target_nums_missing_init(num_beats, w) ==
    LET normalize == SumOver(w, DOMAIN w)
    IN  [tgt \in DOMAIN w |-> (w[tgt] * num_beats) \div normalize]

MaxMissing(missing) == CHOOSE m \in {missing[t] : t \in DOMAIN missing} : \A t \in DOMAIN missing : missing[t] <= m

\* sum(max(n, 0) for n in target_nums_missing.values())
TotalMissing(missing) == SumOver([t \in DOMAIN missing |-> Max2(missing[t], 0)], DOMAIN missing)

\* lines 421-432: of every recording, the parts (8, of split_size rows) that
\* hold none of the classes still missing are dropped
DroppedParts(annot, remaining, remaining_tgts, min_len_segment) ==
    UNION {LET annot_rec == RowsOfRecording(annot, remaining, rec)
               split_size == Max2((Len(annot_rec) + num_parts - 1) \div num_parts, min_len_segment)
               part(k) == Slice(annot_rec, k * split_size,
                                IF k = num_parts - 1 THEN Len(annot_rec) ELSE (k + 1) * split_size)
           IN  UNION {Range(part(k)) : k \in {j \in 0..(num_parts - 1) :
                        remaining_tgts \cap {annot[i].target : i \in Range(part(j))} = {}}} :
             rec \in {annot[i].recording : i \in Range(remaining)}}

PruneRecordings(annot, remaining, missing, min_len_segment) ==
    SelectIn(remaining, Range(remaining) \ DroppedParts(annot, remaining,
                 {t \in DOMAIN missing : missing[t] > 0}, min_len_segment))

AcceptSegmentAnyDensity(annot, seg, missing, min_anomal_per_seg) ==
    LET tgts == {annot[i].target : i \in Range(seg)}
        deciding == {t \in tgts : t \notin DOMAIN missing \/ missing[t] > 0}
        first == CHOOSE t \in deciding : \A u \in deciding : t <= u
    IN  IF deciding = {} THEN "reject"
        ELSE IF first \notin DOMAIN missing THEN "KeyError"
        ELSE IF tgts \subseteq DOMAIN missing THEN "accept"
        ELSE "KeyError"

\* lines 454-462: "accept", "reject", or "KeyError" when the test of line 461
\* reads target_nums_missing at a class that is no key of target_probs
AcceptSegment(annot, seg, missing, min_anomal_per_seg) ==
    LET tgts == {annot[i].target : i \in Range(seg)}
        cnt(t) == Cardinality({k \in DOMAIN seg : annot[seg[k]].target = t})
        anom == tgts \ {0}
        dense == anom = {} \/ \E t \in anom : cnt(t) >= min_anomal_per_seg
        deciding == {t \in tgts : t \notin DOMAIN missing \/ missing[t] > 0}
        first == CHOOSE t \in deciding : \A u \in deciding : t <= u
    IN  IF ~dense \/ deciding = {} THEN "reject"
        ELSE IF first \notin DOMAIN missing THEN "KeyError"
        ELSE IF tgts \subseteq DOMAIN missing THEN "accept"
        ELSE "KeyError"

\* lines 463-469: the segment is kept and its beats are counted
TakeSegment(annot, seg, st) ==
    [st EXCEPT
        !.collected_segments = Append(@, seg),
        !.annotations_remaining = SelectIn(@, Range(@) \ Range(seg)),
        !.target_nums_missing =
            [t \in DOMAIN @ |-> @[t] - Cardinality({k \in DOMAIN seg : annot[seg[k]].target = t})]]

\* lines 448-469: the drawn segments, in the order of their segment ids
RECURSIVE KeepSegments(_, _, _, _)
KeepSegments(annot, segs, st, min_anomal_per_seg) ==
    IF segs = <<>> THEN st
    ELSE LET verdict == AcceptSegment(annot, segs[1], st.target_nums_missing, min_anomal_per_seg)
         IN  IF verdict = "KeyError" THEN [st EXCEPT !.exc = "KeyError"]
             ELSE IF verdict = "accept"
             THEN KeepSegments(annot, Tail(segs), TakeSegment(annot, segs[1], st), min_anomal_per_seg)
             ELSE KeepSegments(annot, Tail(segs), st, min_anomal_per_seg)

\* lines 417-469: one pass of the while loop
NewStylePass(annot, st, min_anomal_per_seg, min_len_segment, max_len_segment) ==
    LET pruned == PruneRecordings(annot, st.annotations_remaining, st.target_nums_missing,
                                  min_len_segment)
    IN  {KeepSegments(annot, new_segs, [st EXCEPT !.annotations_remaining = pruned],
                      min_anomal_per_seg) :
           new_segs \in UNION {Shuffles(col) :
                        col \in _pick_cont_segments_inner(TotalMissing(st.target_nums_missing),
                                    annot, pruned, min_len_segment, max_len_segment)}}

NsIdle == [exc |-> "none", target_nums_missing |-> <<>>, annotations_remaining |-> <<>>, collected_segments |-> <<>>]

(***************************************************************************)
(* generate_target: the label stream of a sequence of beats                *)
(***************************************************************************)
\* what generate_target returns or raises; target is the 1D stream, or the
\* rows of the boolean raster
Stream(target) == [exc |-> "none", target |-> target]

StreamRaised(e) == [exc |-> e, target |-> <<>>]

\* line 989 / 991: the class code of a beat, remapped when map_target is given
beat_target(annot, id, map_target) ==
    IF IsNone(map_target) THEN annot[id].target ELSE Val(map_target)[annot[id].target]

BaseStreamUnmapped(annot, beat_idcs, map_target) ==
    Flatten([k \in DOMAIN beat_idcs |->
                [j \in 1..(annot[beat_idcs[k]].idx_end - annot[beat_idcs[k]].idx_start) |->
                    annot[beat_idcs[k]].target]])

\* line 992: np.repeat(beat_targets, beat_sizes)
BaseStream(annot, beat_idcs, map_target) ==
    Flatten([k \in DOMAIN beat_idcs |->
                [j \in 1..(annot[beat_idcs[k]].idx_end - annot[beat_idcs[k]].idx_start) |->
                    beat_target(annot, beat_idcs[k], map_target)]])

\* lines 997-999: position p (from 1) holds tgt_zero after another value
anom_end_idcs(target, tgt_zero) ==
    [p \in DOMAIN target |-> p > 1 /\ target[p] = tgt_zero /\ target[p - 1] # tgt_zero]

\* line 1001 for one element of anom_end_idcs: the loop variable is the
\* boolean itself, so the slice starts at 0 (False) or 1 (True) and the value
\* is target[-1] (False) or target[0] (True)
ExtendOnce(target, flag, extend) ==
    LET idx_extd == IF flag THEN 1 ELSE 0
        value == IF flag THEN target[1] ELSE target[Len(target)]
    IN  [i \in DOMAIN target |->
            IF idx_extd < i /\ i <= idx_extd + extend THEN value ELSE target[i]]

\* lines 1000-1001: the loop over anom_end_idcs from element k on
RECURSIVE ExtendLoop(_, _, _, _)
ExtendLoop(target, flags, k, extend) ==
    IF k > Len(flags) THEN target
    ELSE ExtendLoop(ExtendOnce(target, flags[k], extend), flags, k + 1, extend)

\* lines 994-1001; numpy builds that refuse a boolean as a slice bound raise
\* TypeError at line 1001, the others overwrite as ExtendLoop does
Extended(target, tgt_zero, extend) ==
    IF target = <<>> THEN {StreamRaised("IndexError")}
    ELSE {Stream(ExtendLoop(target, anom_end_idcs(target, tgt_zero), 1, extend)),
          StreamRaised("TypeError")}

\* lines 1008-1015: the classes that get a column of the raster
anom_targets(annot, beat_idcs, map_target) ==
    IF IsNone(map_target)
    THEN {annot[beat_idcs[k]].target : k \in DOMAIN beat_idcs} \ {0}
    ELSE LET values == {Val(map_target)[t] : t \in DOMAIN Val(map_target)}
         IN  IF 0 \in DOMAIN Val(map_target) THEN values \ {Val(map_target)[0]} ELSE values

\* lines 1016-1021: one row per timestep, one column per class in ascending order
Raster(target, classes) ==
    [t \in DOMAIN target |-> [k \in DOMAIN Sorted(classes) |-> target[t] = Sorted(classes)[k]]]

\* lines 1003-1021
Rastered(r, annot, beat_idcs, map_target, boolean_raster) ==
    IF r.exc # "none" \/ ~boolean_raster THEN r
    ELSE Stream(Raster(r.target, anom_targets(annot, beat_idcs, map_target)))

\* generate_target(annotations.loc[beat_idcs], map_target, extend, boolean_raster)
generate_target(annot, beat_idcs, map_target, extend, boolean_raster) ==
    IF ~IsNone(map_target)
       /\ \E k \in DOMAIN beat_idcs : annot[beat_idcs[k]].target \notin DOMAIN Val(map_target)
    THEN {StreamRaised("KeyError")}
    ELSE IF IsNone(extend)
    THEN {Rastered(Stream(BaseStream(annot, beat_idcs, map_target)),
                   annot, beat_idcs, map_target, boolean_raster)}
    ELSE IF ~IsNone(map_target) /\ 0 \notin DOMAIN Val(map_target)
    THEN {StreamRaised("KeyError")}
    ELSE {Rastered(r, annot, beat_idcs, map_target, boolean_raster) :
            r \in Extended(BaseStream(annot, beat_idcs, map_target),
                           IF IsNone(map_target) THEN 0 ELSE Val(map_target)[0],
                           Val(extend))}


(***************************************************************************)
(* ECGRecordings.provide_data                                              *)
(***************************************************************************)
\* lines 173-181
LengthsValidUnordered(min_len_segment, max_len_segment) ==
    min_len_segment >= 1 /\ max_len_segment >= 1

LengthsValid(min_len_segment, max_len_segment) ==
    /\ min_len_segment >= 1
    /\ max_len_segment >= 1
    /\ max_len_segment >= min_len_segment

\* lines 183-234: the picker a call with num_beats given is handed to
DispatchAnomalFirst(a) ==
    IF (~a.continuous_segments /\ a.match_segments = {}) \/ a.max_len_segment = 1
    THEN "_pick_beats"
    ELSE IF a.continuous_segments
    THEN IF ~IsNone(a.min_anomal_per_seg) THEN "_pick_new_style_segments"
         ELSE IF "target" \in a.match_segments \ {"recording"} THEN "_pick_cont_segments_sameclass"
         ELSE "_pick_cont_segments"
    ELSE "_pick_category_segments"

Dispatch(a) ==
    IF (~a.continuous_segments /\ a.match_segments = {}) \/ a.max_len_segment = 1
    THEN "_pick_beats"
    ELSE IF a.continuous_segments
    THEN IF "target" \in a.match_segments \ {"recording"} THEN "_pick_cont_segments_sameclass"
         ELSE IF ~IsNone(a.min_anomal_per_seg) THEN "_pick_new_style_segments"
         ELSE "_pick_cont_segments"
    ELSE "_pick_category_segments"

\* the pickers that run inside one step; _pick_new_style_segments only
\* raises here (lines 402-406), its loop is stepped by the actions below
RunPicker(name, a, annot, ids) ==
    IF name = "_pick_beats" THEN _pick_beats(Val(a.num_beats), annot, ids, a.target_probs)
    ELSE IF name = "_pick_cont_segments_sameclass"
    THEN _pick_cont_segments_sameclass(Val(a.num_beats), annot, ids, a.target_probs,
                                       a.min_len_segment, a.max_len_segment)
    ELSE IF name = "_pick_cont_segments"
    THEN _pick_cont_segments(Val(a.num_beats), annot, ids, a.min_len_segment, a.max_len_segment)
    ELSE IF name = "_pick_category_segments"
    THEN _pick_category_segments(Val(a.num_beats), annot, ids, a.target_probs, a.match_segments,
                                 a.min_len_segment, a.max_len_segment)
    ELSE IF a.target_probs.kind = "None" THEN {Raised("ValueError")}
    ELSE {Raised("AttributeError")}

\* lines 243-245: the offsets of the rows in the returned signal slice
idx_start_new_buggy(beat_sizes, k) == SeqSum(SubSeq(beat_sizes, 1, k))

idx_start_new(beat_sizes, k) == SeqSum(SubSeq(beat_sizes, 1, k - 1))

idx_end_new(beat_sizes, k) == SeqSum(SubSeq(beat_sizes, 1, k))

\* lines 236-249: the rows of the selection with the added columns
SelectionRows(annot, r) ==
    LET beat_sizes == [k \in DOMAIN r.beat_indices |->
                          annot[r.beat_indices[k]].idx_end - annot[r.beat_indices[k]].idx_start]
    IN  [k \in DOMAIN r.beat_indices |->
            [id |-> r.beat_indices[k],
             idx_start_new |-> idx_start_new(beat_sizes, k),
             idx_end_new |-> idx_end_new(beat_sizes, k),
             segment_id |-> IF r.has_segs THEN Some(r.ids_segment[k]) ELSE <<>>]]

\* ECGRecordings.generate_signal: the samples idx_start..idx_end-1 of every
\* row, row after row
generate_signal(annot, data, beat_indices) ==
    Flatten([k \in DOMAIN beat_indices |->
                [j \in 1..(annot[beat_indices[k]].idx_end - annot[beat_indices[k]].idx_start) |->
                    data[annot[beat_indices[k]].idx_start + j - 1]]])

\* lines 251-253
MarkUsedAlways(annot, beat_indices, remain_unused) ==
    [i \in DOMAIN annot |->
        IF i \in Range(beat_indices) THEN [annot[i] EXCEPT !.is_used = TRUE] ELSE annot[i]]

MarkUsed(annot, beat_indices, remain_unused) ==
    IF remain_unused THEN annot
    ELSE [i \in DOMAIN annot |->
            IF i \in Range(beat_indices) THEN [annot[i] EXCEPT !.is_used = TRUE] ELSE annot[i]]

Used(annot) == {i \in DOMAIN annot : annot[i].is_used}

\* the selection is the repository's own frame when nothing was filtered and
\* nothing was drawn (lines 320-327, 169): the added columns land in it
SelectionIsRepository(a) == IsNone(a.num_beats) /\ a.include.cols = {} /\ a.exclude.cols = {}

NewColumns(a, r) ==
    IF SelectionIsRepository(a) THEN {"idx_start_new", "idx_end_new"} ELSE {}

IsDefaultCall(a) == a.exclude = DefaultExclude /\ ~a.remain_unused

\* the history kept for the properties: is_used before the call and the
\* beats the calls before it returned
HistAtCall ==
    [used_before |-> Used(annotations),
     returned_before |-> hist.returned_before \cup
                            (IF exc = "none" THEN {selection[k].id : k \in DOMAIN selection} ELSE {})]

EndRaisedMarked(a, name, e) ==
    /\ pc' = "idle"
    /\ call' = a
    /\ picker' = name
    /\ exc' = e
    /\ selection' = <<>>
    /\ signal' = <<>>
    /\ ns' = NsIdle
    /\ annotations' = MarkUsed(annotations, _filter_data(annotations, a.include, a.exclude),
                               a.remain_unused)
    /\ UNCHANGED <<columns, ecg_data, fn, out>>

\* the call ends with an exception: nothing is returned, nothing is marked
EndRaised(a, name, e) ==
    /\ pc' = "idle"
    /\ call' = a
    /\ picker' = name
    /\ exc' = e
    /\ selection' = <<>>
    /\ signal' = <<>>
    /\ ns' = NsIdle
    /\ UNCHANGED <<annotations, columns, ecg_data, fn, out>>

\* lines 236-255; an empty selection makes the column assignments of lines
\* 244-245 fail on the length of the values (ValueError)
EndPicked(a, name, r) ==
    IF r.exc # "none" THEN EndRaised(a, name, r.exc)
    ELSE IF r.beat_indices = <<>> THEN EndRaised(a, name, "ValueError")
    ELSE /\ pc' = "idle"
         /\ call' = a
         /\ picker' = name
         /\ exc' = "none"
         /\ selection' = SelectionRows(annotations, r)
         /\ signal' = generate_signal(annotations, ecg_data, r.beat_indices)
         /\ annotations' = MarkUsed(annotations, r.beat_indices, a.remain_unused)
         /\ columns' = columns \cup NewColumns(a, r)
         /\ ns' = NsIdle
         /\ UNCHANGED <<ecg_data, fn, out>>

\* the arguments of a call: those of the session, with this call's num_beats
CallWith(nb) == [call EXCEPT !.num_beats = nb]

\* provide_data(num_beats=None, ...): every filtered beat, in index order
provide_all ==
    /\ pc = "idle"
    /\ hist' = HistAtCall
    /\ EndPicked(CallWith(<<>>), "none",
                 Picked(_filter_data(annotations, call.include, call.exclude)))

\* provide_data with num_beats given and lengths that fail lines 173-181
provide_invalid(nb) ==
    /\ pc = "idle"
    /\ ~IsNone(nb)
    /\ ~LengthsValid(call.min_len_segment, call.max_len_segment)
    /\ hist' = HistAtCall
    /\ EndRaised(CallWith(nb), "none", "ValueError")

\* provide_data with num_beats given, through one of the pickers
provide_data(nb) ==
    /\ pc = "idle"
    /\ ~IsNone(nb)
    /\ LengthsValid(call.min_len_segment, call.max_len_segment)
    /\ Dispatch(call) = "_pick_new_style_segments" => call.target_probs.kind # "dict"
    /\ hist' = HistAtCall
    /\ \E r \in RunPicker(Dispatch(call), CallWith(nb), annotations,
                          _filter_data(annotations, call.include, call.exclude)) :
          EndPicked(CallWith(nb), Dispatch(call), r)

\* provide_data entering the loop of _pick_new_style_segments (lines 408-416)
new_style_enter(nb) ==
    /\ pc = "idle"
    /\ ~IsNone(nb)
    /\ LengthsValid(call.min_len_segment, call.max_len_segment)
    /\ Dispatch(call) = "_pick_new_style_segments"
    /\ call.target_probs.kind = "dict"
    /\ hist' = HistAtCall
    /\ pc' = "new_style"
    /\ call' = CallWith(nb)
    /\ picker' = Dispatch(call)
    /\ exc' = "none"
    /\ selection' = <<>>
    /\ signal' = <<>>
    /\ ns' = [exc |-> "none",
              target_nums_missing |-> target_nums_missing_init(Val(nb), call.target_probs.w),
              annotations_remaining |-> _filter_data(annotations, call.include, call.exclude),
              collected_segments |-> <<>>]
    /\ UNCHANGED <<annotations, columns, ecg_data, fn, out>>

\* one pass of the while loop of line 417
new_style_iteration ==
    /\ pc = "new_style"
    /\ MaxMissing(ns.target_nums_missing) > 0
    /\ \E st \in NewStylePass(annotations, ns, Val(call.min_anomal_per_seg),
                              call.min_len_segment, call.max_len_segment) :
          IF st.exc # "none"
          THEN EndRaised(call, picker, st.exc)
          ELSE /\ ns' = st
               /\ UNCHANGED <<annotations, columns, ecg_data, pc, call, picker, exc, selection, signal, fn, out>>
    /\ UNCHANGED hist

\* the loop is left (lines 471-480), then lines 236-255
new_style_return ==
    /\ pc = "new_style"
    /\ MaxMissing(ns.target_nums_missing) <= 0
    /\ \E r \in FinishSegments(ns.collected_segments) : EndPicked(call, picker, r)
    /\ UNCHANGED hist

(***************************************************************************)
(* ECGRecordings.__init__ and the annotation tables it is given            *)
(***************************************************************************)
\* beats are 2 or 1 samples long; gap[i] samples lie between beat i-1 and beat i
BeatSize(i) == 1 + (i % 2)

RECURSIVE IdxEnd(_, _)
IdxEnd(gap, i) == IF i = 0 THEN 0 ELSE IdxEnd(gap, i - 1) + gap[i] + BeatSize(i)

\* line 118: is_used is added, False for every row
MakeTable(target, recording, gap) ==
    [i \in DOMAIN target |->
        [idx_start |-> IdxEnd(gap, i) - BeatSize(i),
         idx_end |-> IdxEnd(gap, i),
         target |-> target[i],
         recording |-> recording[i],
         is_used |-> FALSE]]

\* recordings are numbered in table order: the first split rows are recording 0
RecordingSplit(n, split) == [i \in 1..n |-> IF i <= split THEN 0 ELSE 1]

NoGaps(n) == [i \in 1..n |-> 0]

\* the value of sample i of the buffer
Sample(i) == 100 + i

Buffer(annot) == [i \in 0..(annot[Len(annot)].idx_end - 1) |-> Sample(i)]

BaseColumns == {"idx_start", "idx_end", "target", "recording", "bad_signal", "is_anomal"}

Args(nb, inc, ex, tp, cont, anom, match, minl, maxl, remain) ==
    [num_beats |-> nb, include |-> inc, exclude |-> ex, target_probs |-> tp,
     continuous_segments |-> cont, min_anomal_per_seg |-> anom, match_segments |-> match,
     min_len_segment |-> minl, max_len_segment |-> maxl, remain_unused |-> remain]

\* a session: the table the repository is built from and the arguments its
\* calls share (num_beats is chosen call by call); no call was made yet
InitFrom(tables, sessions) ==
    /\ annotations \in tables
    /\ columns = BaseColumns \cup {"is_used"}
    /\ ecg_data = Buffer(annotations)
    /\ pc = "idle"
    /\ call \in sessions
    /\ picker = "never"
    /\ exc = "none"
    /\ selection = <<>>
    /\ signal = <<>>
    /\ ns = NsIdle
    /\ hist = [used_before |-> {}, returned_before |-> {}]
    /\ fn = <<>>
    /\ out = <<>>

NumBeatsChoices == {Some(n) : n \in 0..MaxNumBeats}

EvenWeights == TpDict(0 :> 1 @@ 1 :> 1)

\* a call has returned or raised
CallEnded == pc = "idle" /\ picker # "never"

Returned == CallEnded /\ exc = "none"

SelectedIds == {selection[k].id : k \in DOMAIN selection}

(***************************************************************************)
(* Spec: the repository over repeated calls, one session of every kind     *)
(***************************************************************************)
TablesRepo ==
    {MakeTable(t, RecordingSplit(NumRows, NumRows), NoGaps(NumRows)) :
        t \in {[i \in 1..NumRows |-> i % 2], [i \in 1..NumRows |-> 1], [i \in 1..NumRows |-> 0]}}

PlainMode == [cont |-> FALSE, anom |-> <<>>, match |-> {}, minl |-> 1, maxl |-> 1]

Modes ==
    {PlainMode,
     [cont |-> TRUE, anom |-> <<>>, match |-> {}, minl |-> 1, maxl |-> MaxLen],
     [cont |-> TRUE, anom |-> <<>>, match |-> {"target"}, minl |-> 1, maxl |-> MaxLen],
     [cont |-> TRUE, anom |-> Some(1), match |-> {}, minl |-> 1, maxl |-> MaxLen],
     [cont |-> FALSE, anom |-> <<>>, match |-> {"target"}, minl |-> 1, maxl |-> MaxLen],
     [cont |-> FALSE, anom |-> <<>>, match |-> {}, minl |-> MaxLen, maxl |-> 1]}

\* the default sessions in every mode; sessions that leave the beats unused;
\* sessions that do not exclude the used beats, so that calls mark them again
SessionsRepo ==
    {Args(<<>>, NoFilter, DefaultExclude, tp, m.cont, m.anom, m.match, m.minl, m.maxl, FALSE) :
        tp \in {TpNone, EvenWeights}, m \in Modes}
    \cup {Args(<<>>, NoFilter, DefaultExclude, EvenWeights, m.cont, m.anom, m.match, m.minl, m.maxl, TRUE) :
            m \in Modes}
    \cup {Args(<<>>, NoFilter, NoFilter, EvenWeights, FALSE, <<>>, {}, 1, 1, remain) : remain \in BOOLEAN}

Init == InitFrom(TablesRepo, SessionsRepo)

Next ==
    \/ provide_all
    \/ \E nb \in NumBeatsChoices : provide_invalid(nb)
    \/ \E nb \in NumBeatsChoices : provide_data(nb)
    \/ \E nb \in NumBeatsChoices : new_style_enter(nb)
    \/ new_style_iteration
    \/ new_style_return

Spec == Init /\ [][Next]_vars

\* C1: a call that returns leaves is_used of every beat as it was when
\* remain_unused is true; otherwise the used beats are those used before the
\* call together with exactly the returned beats.
C1_MarkEffect ==
    Returned =>
        IF call.remain_unused
        THEN Used(annotations) = hist.used_before
        ELSE Used(annotations) = hist.used_before \cup SelectedIds

\* a call re-marks a beat that was used already
C1_Witness ==
    /\ Returned
    /\ ~call.remain_unused
    /\ SelectedIds \cap hist.used_before # {}
    /\ SelectedIds \ hist.used_before # {}

\* C2: with the default exclude filter and remain_unused false, no call
\* returns a beat an earlier call returned, and is_used never goes back to
\* false.
C2_NoReuse ==
    [][/\ Used(annotations) \subseteq Used(annotations')
       /\ (IsDefaultCall(call') /\ pc' = "idle" /\ exc' = "none")
             => {selection'[k].id : k \in DOMAIN selection'} \cap hist'.returned_before = {}]_vars

\* a default call returns beats after an earlier call returned others
C2_Witness ==
    /\ Returned
    /\ IsDefaultCall(call)
    /\ hist.returned_before # {}
    /\ SelectedIds # {}

\* C3: the added offsets tile the returned signal slice in selection order.
C3_OffsetsTile ==
    Returned =>
        LET size(k) == annotations[selection[k].id].idx_end - annotations[selection[k].id].idx_start
        IN  /\ selection[1].idx_start_new = 0
            /\ \A k \in DOMAIN selection :
                  /\ selection[k].idx_end_new - selection[k].idx_start_new = size(k)
                  /\ k > 1 => selection[k].idx_start_new = selection[k - 1].idx_end_new
            /\ selection[Len(selection)].idx_end_new = Len(signal)
            /\ Len(signal) = SeqSum([k \in DOMAIN selection |-> size(k)])

\* a call returned rows of both beat sizes
C3_Witness ==
    /\ Returned
    /\ Len(selection) >= 2
    /\ \E j, k \in DOMAIN selection :
          selection[j].idx_end_new - selection[j].idx_start_new
             # selection[k].idx_end_new - selection[k].idx_start_new

(***************************************************************************)
(* SpecDispatch: one call for every combination of the segmentation flags  *)
(***************************************************************************)
TablesDispatch ==
    {MakeTable([i \in 1..NumRows |-> i % 2], RecordingSplit(NumRows, NumRows), NoGaps(NumRows))}

MatchChoices == {{}, {"target"}, {"recording"}, {"target", "recording"}}

SessionsDispatch ==
    {Args(<<>>, NoFilter, DefaultExclude, EvenWeights, cont, anom, match, minl, maxl, FALSE) :
        cont \in BOOLEAN, anom \in {<<>>, Some(1)}, match \in MatchChoices,
        minl \in 0..MaxLen, maxl \in 0..MaxLen}

InitDispatch == InitFrom(TablesDispatch, SessionsDispatch)

SpecDispatch == InitDispatch /\ [][Next]_vars

\* the lengths a call must pass, as the documentation states them
LengthsSensible(a) == a.min_len_segment >= 1 /\ a.max_len_segment >= a.min_len_segment

\* C4: with num_beats given and valid lengths the picker is decided by the
\* flags in the order (1) plain draw, (2) per-class continuous, (3)
\* density-constrained, (4) continuous, (5) category; one picker runs, the
\* plain draw gives no segment ids, and "recording" in match_segments does
\* not change the picker of a continuous call.
C4_Dispatch ==
    (picker # "never" /\ ~IsNone(call.num_beats) /\ LengthsSensible(call)) =>
        LET plain == (~call.continuous_segments /\ call.match_segments = {})
                        \/ call.max_len_segment = 1
            same == ~plain /\ call.continuous_segments /\ "target" \in call.match_segments
            dense == ~plain /\ ~same /\ call.continuous_segments
                        /\ ~IsNone(call.min_anomal_per_seg)
            cont == ~plain /\ ~same /\ ~dense /\ call.continuous_segments
            cat == ~plain /\ ~call.continuous_segments
        IN  /\ plain => picker = "_pick_beats"
            /\ same => picker = "_pick_cont_segments_sameclass"
            /\ dense => picker = "_pick_new_style_segments"
            /\ cont => picker = "_pick_cont_segments"
            /\ cat => picker = "_pick_category_segments" /\ call.match_segments # {}
            /\ picker \in {"_pick_beats", "_pick_cont_segments_sameclass",
                           "_pick_new_style_segments", "_pick_cont_segments",
                           "_pick_category_segments"}
            /\ (plain /\ Returned) => \A k \in DOMAIN selection : IsNone(selection[k].segment_id)
            /\ call.continuous_segments =>
                  /\ picker = Dispatch([call EXCEPT !.match_segments = @ \cup {"recording"}])
                  /\ picker = Dispatch([call EXCEPT !.match_segments = @ \ {"recording"}])

\* a continuous call that matches target and recording and sets
\* min_anomal_per_seg went to the per-class picker and returned segments
C4_Witness ==
    /\ Returned
    /\ call.continuous_segments
    /\ call.match_segments = {"target", "recording"}
    /\ ~IsNone(call.min_anomal_per_seg)
    /\ picker = "_pick_cont_segments_sameclass"
    /\ \A k \in DOMAIN selection : ~IsNone(selection[k].segment_id)

TablesPlain ==
    {MakeTable(t, RecordingSplit(NumRows, NumRows), NoGaps(NumRows)) : t \in [1..NumRows -> {0, 1, 2}]}

SessionsPlain ==
    {Args(<<>>, NoFilter, DefaultExclude, tp, FALSE, <<>>, {}, 1, MaxLen, remain) :
        tp \in {TpNone, TpUniform, TpDict(1 :> 1), TpDict(1 :> 1 @@ 2 :> 1), EvenWeights},
        remain \in BOOLEAN}

InitPlain == InitFrom(TablesPlain, SessionsPlain)

NextPlain ==
    \/ provide_all
    \/ \E nb \in NumBeatsChoices : provide_data(nb)

SpecPlain == InitPlain /\ [][NextPlain]_vars

\* the table as the last call found it, and the beats that passed its filter
AnnotBefore ==
    [i \in DOMAIN annotations |-> [annotations[i] EXCEPT !.is_used = (i \in hist.used_before)]]

PoolBefore == _filter_data(AnnotBefore, call.include, call.exclude)

AvailableOf(c) == Len(RowsOfTarget(AnnotBefore, PoolBefore, c))

ReturnedOf(c) == Cardinality({k \in DOMAIN selection : annotations[selection[k].id].target = c})

\* C9: the plain draw is without replacement for every target_probs: no beat
\* occurs twice in the selection of one call, and the selection has no more
\* rows than beats passed the filter.
C9_WithoutReplacement ==
    (Returned /\ picker = "_pick_beats") =>
        /\ Cardinality(SelectedIds) = Len(selection)
        /\ Len(selection) <= Len(PoolBefore)

\* C10: in the plain draw with a class-weight mapping the beats returned of
\* every class are min(allocated count, available beats of the class), and
\* the total is num_beats minus the shortfalls of the classes.
C10_CountsPerClass ==
    (Returned /\ picker = "_pick_beats" /\ call.target_probs.kind = "dict") =>
        \E bc \in _determine_beat_counts(Val(call.num_beats), AnnotBefore, PoolBefore,
                                         call.target_probs) :
            /\ bc.exc = "none"
            /\ \A c \in DOMAIN bc.counts : ReturnedOf(c) = Min2(bc.counts[c], AvailableOf(c))
            /\ \A c \in {0, 1, 2} \ DOMAIN bc.counts : ReturnedOf(c) = 0
            /\ Len(selection) = Val(call.num_beats)
                  - SumOver([c \in DOMAIN bc.counts |-> Max2(0, bc.counts[c] - AvailableOf(c))],
                            DOMAIN bc.counts)

(***************************************************************************)
(* SpecCategory: the category picker over one or two recordings            *)
(***************************************************************************)
\* one row more than the other tables: a recording that yields a segment of
\* two beats of a class leaves room for a beat of another class or recording
CategoryRows == NumRows + 1

TablesCategory ==
    {MakeTable(t, RecordingSplit(CategoryRows, split), NoGaps(CategoryRows)) :
        t \in [1..CategoryRows -> {0, 1}], split \in {NumRows}}

SessionsCategory ==
    {Args(<<>>, NoFilter, DefaultExclude, tp, FALSE, <<>>, match, minl, MaxLen, remain) :
        tp \in {TpDict(1 :> 1), EvenWeights},
        match \in {{"target"}, {"target", "recording"}},
        minl \in {1, MaxLen}, remain \in {FALSE}}

InitCategory == InitFrom(TablesCategory, SessionsCategory)

SpecCategory == InitCategory /\ [][NextPlain]_vars

\* every outcome of the allocator asks for more beats of class c than passed
\* the filter
AsksTooMany(c) ==
    \A bc \in _determine_beat_counts(Val(call.num_beats), AnnotBefore, PoolBefore,
                                     call.target_probs) :
        bc.exc = "none" /\ c \in DOMAIN bc.counts /\ bc.counts[c] > AvailableOf(c)

\* C6: when the count requested for a class exceeds the available beats of
\* the class, the call completes without an error and returns fewer beats
\* than requested.
C6_InsufficientNeverAborts ==
    (CallEnded /\ ~IsNone(call.num_beats) /\ picker # "none" /\ \E c \in {0, 1, 2} : AsksTooMany(c)) =>
        exc = "none" /\ Len(selection) < Val(call.num_beats)

\* C8: in category mode the rows of one segment_id have one target, and one
\* recording too when match_segments = {"target", "recording"}.
C8_SegmentsConstant ==
    (Returned /\ picker = "_pick_category_segments") =>
        \A j, k \in DOMAIN selection :
            selection[j].segment_id = selection[k].segment_id =>
                /\ annotations[selection[j].id].target = annotations[selection[k].id].target
                /\ "recording" \in call.match_segments =>
                      annotations[selection[j].id].recording = annotations[selection[k].id].recording

\* a call matching target and recording returned a segment of two beats from
\* a table that holds both classes
C8_Witness ==
    /\ Returned
    /\ picker = "_pick_category_segments"
    /\ call.match_segments = {"target", "recording"}
    /\ \E j, k \in DOMAIN selection : j # k /\ selection[j].segment_id = selection[k].segment_id
    /\ \E i, j \in DOMAIN annotations :
          /\ annotations[i].target # annotations[j].target
          /\ annotations[i].recording # annotations[j].recording

(***************************************************************************)
(* SpecContinuous: the continuous pickers over tables with a gap between   *)
(* two beats                                                               *)
(***************************************************************************)
TablesContinuous ==
    {MakeTable(t, RecordingSplit(NumRows, split), [i \in 1..NumRows |-> IF i = g THEN 1 ELSE 0]) :
        t \in [1..NumRows -> {0, 1}], split \in {NumRows - 1, NumRows}, g \in 1..NumRows}

SessionsContinuous ==
    {Args(<<>>, NoFilter, DefaultExclude, EvenWeights, TRUE, anom, match, 1, MaxLen, FALSE) :
        anom \in {<<>>, Some(1)}, match \in {{}, {"target"}}}

InitContinuous == InitFrom(TablesContinuous, SessionsContinuous)

NextContinuous ==
    \/ provide_all
    \/ \E nb \in NumBeatsChoices : provide_data(nb)
    \/ \E nb \in NumBeatsChoices : new_style_enter(nb)
    \/ new_style_iteration
    \/ new_style_return

SpecContinuous == InitContinuous /\ [][NextContinuous]_vars

ContinuousPickers ==
    {"_pick_cont_segments", "_pick_cont_segments_sameclass", "_pick_new_style_segments"}

\* C7 as stated: in every continuous mode the beats of a returned segment are
\* of one recording and every beat starts at the sample the beat before it
\* ends at.
C7_SegmentsAbut ==
    (Returned /\ picker \in ContinuousPickers) =>
        \A k \in 1..(Len(selection) - 1) :
            selection[k].segment_id = selection[k + 1].segment_id =>
                /\ annotations[selection[k].id].recording = annotations[selection[k + 1].id].recording
                /\ annotations[selection[k + 1].id].idx_start = annotations[selection[k].id].idx_end

\* C7, amended: in every continuous mode the beats of a returned segment are
\* of one recording and have consecutive identifiers (no beat of the table is
\* skipped inside a segment); every beat starts where the beat before it ends
\* if the table leaves no samples between beats of consecutive identifiers.
C7_SegmentsConsecutive ==
    (Returned /\ picker \in ContinuousPickers) =>
        \A k \in 1..(Len(selection) - 1) :
            selection[k].segment_id = selection[k + 1].segment_id =>
                /\ annotations[selection[k].id].recording = annotations[selection[k + 1].id].recording
                /\ selection[k + 1].id = selection[k].id + 1
                /\ annotations[selection[k].id + 1].idx_start = annotations[selection[k].id].idx_end
                      => annotations[selection[k + 1].id].idx_start = annotations[selection[k].id].idx_end

\* a continuous segment holds two beats with samples between them
C7_Witness ==
    /\ Returned
    /\ picker \in ContinuousPickers
    /\ \E k \in 1..(Len(selection) - 1) :
          /\ selection[k].segment_id = selection[k + 1].segment_id
          /\ selection[k + 1].id = selection[k].id + 1
          /\ annotations[selection[k + 1].id].idx_start > annotations[selection[k].id].idx_end


(***************************************************************************)
(* SpecUtilities: the module-level functions called on their own, once     *)
(* per behaviour, with the arguments drawn in the initial state            *)
(***************************************************************************)
repo == <<annotations, columns, ecg_data, pc, call, picker, exc, selection, signal, ns, hist>>

\* a repository no call was made on, next to the function call fn
InitUtility(tables, calls) ==
    /\ annotations \in tables
    /\ columns = BaseColumns \cup {"is_used"}
    /\ ecg_data = Buffer(annotations)
    /\ pc = "idle"
    /\ call = <<>>
    /\ picker = "never"
    /\ exc = "none"
    /\ selection = <<>>
    /\ signal = <<>>
    /\ ns = NsIdle
    /\ hist = [used_before |-> {}, returned_before |-> {}]
    /\ fn \in calls
    /\ out = <<>>

AllRows == [i \in 1..NumRows |-> i]

\* class-weight mappings over the classes 0, 1, 2 whose weights divide
\* exactly (the sum of the weights is a power of two)
WeightChoices ==
    {w \in UNION {[K -> 0..2] : K \in (SUBSET {0, 1, 2}) \ {{}}} :
        SumOver(w, DOMAIN w) \in {1, 2, 4}}

AllocatorCalls ==
    {[name |-> "_determine_beat_counts", num_beats |-> n, target_probs |-> tp] :
        n \in 0..MaxNumBeats,
        tp \in {TpNone, TpUniform} \cup {TpDict(w) : w \in WeightChoices}}

\* budgets up to MaxNumBeats + MaxLen, lengths 1 <= min <= max <= MaxLen
PlannerCalls ==
    UNION {{[name |-> "_determine_seg_lengths", num_beats_total |-> b,
             min_len_segment |-> lo, max_len_segment |-> hi] :
               b \in 0..(MaxNumBeats + MaxLen), hi \in lo..MaxLen} :
             lo \in 1..MaxLen}

TablesUtility ==
    {MakeTable(t, RecordingSplit(NumRows, NumRows), NoGaps(NumRows)) : t \in [1..NumRows -> {0, 1, 2}]}

OneTable ==
    {MakeTable([i \in 1..NumRows |-> i % 2], RecordingSplit(NumRows, NumRows), NoGaps(NumRows))}

\* _determine_beat_counts(num_beats, annotations, target_probs) on the whole table
determine_beat_counts ==
    /\ fn # <<>>
    /\ fn.name = "_determine_beat_counts"
    /\ out = <<>>
    /\ \E r \in _determine_beat_counts(fn.num_beats, annotations, AllRows, fn.target_probs) :
          out' = Some(r)
    /\ UNCHANGED <<repo, fn>>

\* _determine_seg_lengths(num_beats_total, min_len_segment, max_len_segment)
determine_seg_lengths ==
    /\ fn # <<>>
    /\ fn.name = "_determine_seg_lengths"
    /\ out = <<>>
    /\ \E r \in _determine_seg_lengths(fn.num_beats_total, fn.min_len_segment, fn.max_len_segment) :
          out' = Some(r)
    /\ UNCHANGED <<repo, fn>>

\* map_target: none, two total mappings (classes merged; class 0 mapped away
\* from 0) and one that lacks class 2
MapChoices ==
    {<<>>, Some(0 :> 0 @@ 1 :> 1 @@ 2 :> 1), Some(0 :> 2 @@ 1 :> 0 @@ 2 :> 1), Some(0 :> 0 @@ 1 :> 1)}

TargetCalls ==
    {[name |-> "generate_target", beat_idcs |-> b, map_target |-> m, extend |-> e,
      boolean_raster |-> raster] :
        b \in Arrangements(1..NumRows, NumRows) \cup {<<>>},
        m \in MapChoices,
        e \in {<<>>} \cup {Some(n) : n \in 1..MaxExtend},
        raster \in BOOLEAN}

\* ECGRecordings.generate_target(beat_idcs, map_target, extend, boolean_raster)
call_generate_target ==
    /\ fn # <<>>
    /\ fn.name = "generate_target"
    /\ out = <<>>
    /\ \E r \in generate_target(annotations, fn.beat_idcs, fn.map_target, fn.extend,
                                 fn.boolean_raster) :
          out' = Some(r)
    /\ UNCHANGED <<repo, fn>>

InitUtilities ==
    \/ InitUtility(TablesUtility, AllocatorCalls)
    \/ InitUtility(OneTable, PlannerCalls)
    \/ InitUtility(TablesUtility, TargetCalls)

NextUtilities ==
    \/ determine_beat_counts
    \/ determine_seg_lengths
    \/ call_generate_target

SpecUtilities == InitUtilities /\ [][NextUtilities]_vars

Called(name) == fn # <<>> /\ fn.name = name /\ out # <<>>

\* C11: the counts of the allocator sum exactly to num_beats, for every
\* num_beats >= 0 and every target_probs, with or without class 0.
C11_CountsSumToNumBeats ==
    Called("_determine_beat_counts") =>
        /\ Val(out).exc = "none"
        /\ SumOver(Val(out).counts, DOMAIN Val(out).counts) = fn.num_beats

\* C12: every count of the allocator is non-negative, the count of class 0
\* after the residual was added to it included.
C12_CountsNonNegative ==
    Called("_determine_beat_counts") =>
        /\ Val(out).exc = "none"
        /\ \A t \in DOMAIN Val(out).counts : Val(out).counts[t] >= 0

\* C13: the lengths of the planner sum to at least the budget and to less
\* than budget + max_len_segment.
C13_PlanCoversBudget ==
    Called("_determine_seg_lengths") =>
        /\ SeqSum(Val(out)) >= fn.num_beats_total
        /\ SeqSum(Val(out)) < fn.num_beats_total + fn.max_len_segment

\* C14: every length of the planner lies in min_len_segment..max_len_segment,
\* the appended last one included, and the list is never empty.
C14_LengthsInRange ==
    Called("_determine_seg_lengths") =>
        /\ Val(out) # <<>>
        /\ \A k \in DOMAIN Val(out) :
              fn.min_len_segment <= Val(out)[k] /\ Val(out)[k] <= fn.max_len_segment

\* the planner kept drawn lengths and appended min_len_segment as the last
\* one, more than the budget still missed
C14_Witness ==
    /\ Called("_determine_seg_lengths")
    /\ fn.num_beats_total > fn.max_len_segment
    /\ Len(Val(out)) >= 2
    /\ Val(out)[Len(Val(out))] = fn.min_len_segment
    /\ SeqSum(Val(out)) > fn.num_beats_total


\* the beat (position in beat_idcs) that covers timestep t of the stream
CoveringBeat(t) ==
    LET size(k) == annotations[fn.beat_idcs[k]].idx_end - annotations[fn.beat_idcs[k]].idx_start
        upto(k) == SeqSum([j \in 1..k |-> size(j)])
    IN  CHOOSE k \in DOMAIN fn.beat_idcs : upto(k - 1) < t /\ t <= upto(k)

\* the class code the caller asked for: remapped when map_target is given
CodeOf(id) ==
    IF fn.map_target = <<>> THEN annotations[id].target
    ELSE Val(fn.map_target)[annotations[id].target]

\* every class of the beats is a key of map_target (and class 0 is one)
MapIsTotal ==
    fn.map_target = <<>>
      \/ ({0} \cup {annotations[fn.beat_idcs[k]].target : k \in DOMAIN fn.beat_idcs}
             \subseteq DOMAIN Val(fn.map_target))

StreamLength ==
    SeqSum([k \in DOMAIN fn.beat_idcs |->
               annotations[fn.beat_idcs[k]].idx_end - annotations[fn.beat_idcs[k]].idx_start])

\* C15: without extend and without boolean_raster the label stream is as long
\* as the beats together, and every timestep holds the (remapped) class code
\* of the beat that covers it, the beats laid out in input order.
C15_BaseStream ==
    (Called("generate_target") /\ fn.extend = <<>> /\ ~fn.boolean_raster /\ MapIsTotal) =>
        /\ Val(out).exc = "none"
        /\ Len(Val(out).target) = StreamLength
        /\ \A t \in 1..StreamLength :
              Val(out).target[t] = CodeOf(fn.beat_idcs[CoveringBeat(t)])

\* a remapped stream of beats of different sizes, in another order than the table
C15_Witness ==
    /\ Called("generate_target")
    /\ fn.extend = <<>>
    /\ ~fn.boolean_raster
    /\ fn.map_target # <<>>
    /\ MapIsTotal
    /\ Len(fn.beat_idcs) >= 2
    /\ fn.beat_idcs[1] > fn.beat_idcs[2]
    /\ \E t \in 1..StreamLength :
          Val(out).target[t] # annotations[fn.beat_idcs[CoveringBeat(t)]].target

\* the stream without extend, as C15 describes it
ClaimedBase == [t \in 1..StreamLength |-> CodeOf(fn.beat_idcs[CoveringBeat(t)])]

ZeroCode == IF fn.map_target = <<>> THEN 0 ELSE Val(fn.map_target)[0]

\* position p is where the base stream goes from a non-zero class to the
\* zero class and no non-zero sample lies within the next n samples
RunEndsAt(p, n) ==
    /\ p > 1
    /\ ClaimedBase[p] = ZeroCode
    /\ ClaimedBase[p - 1] # ZeroCode
    /\ \A q \in p..Min2(p + n - 1, StreamLength) : ClaimedBase[q] = ZeroCode

\* C16: with extend = n the stream is the base stream but for the n samples
\* from every such position on, which carry the class before the transition;
\* the length is unchanged.
C16_ExtendPadsRuns ==
    (Called("generate_target") /\ fn.extend # <<>> /\ ~fn.boolean_raster /\ MapIsTotal
        /\ fn.beat_idcs # <<>>) =>
        /\ Val(out).exc = "none"
        /\ Len(Val(out).target) = StreamLength
        /\ \A t \in 1..StreamLength :
              Val(out).target[t] =
                  IF \E p \in 1..t : p + Val(fn.extend) > t /\ RunEndsAt(p, Val(fn.extend))
                  THEN ClaimedBase[(CHOOSE p \in 1..t :
                                       p + Val(fn.extend) > t /\ RunEndsAt(p, Val(fn.extend))) - 1]
                  ELSE ClaimedBase[t]


(***************************************************************************)
(* SpecDense: calls that run the density-constrained picker                *)
(***************************************************************************)
TablesDense ==
    {MakeTable(t, RecordingSplit(NumRows, split), NoGaps(NumRows)) :
        t \in [1..NumRows -> {0, 1, 2}], split \in {NumRows - 1, NumRows}}

\* target_probs names classes 0 and 1, or the anomalous classes 1 and 2 only
SessionsDense ==
    {Args(<<>>, NoFilter, DefaultExclude, tp, TRUE, Some(anom), {}, minl, MaxLen, FALSE) :
        tp \in {EvenWeights, TpDict(1 :> 1 @@ 2 :> 1)}, anom \in 1..2, minl \in 1..2}

InitDense == InitFrom(TablesDense, SessionsDense)

NextDense ==
    \/ provide_all
    \/ \E nb \in NumBeatsChoices : new_style_enter(nb)
    \/ new_style_iteration
    \/ new_style_return

SpecDense == InitDense /\ [][NextDense]_vars

ClassesOf(seg) == {annotations[seg[k]].target : k \in DOMAIN seg}

CountIn(seg, t) == Cardinality({k \in DOMAIN seg : annotations[seg[k]].target = t})

\* only class-0 beats, or at least min_anomal_per_seg beats of one non-zero class
SegmentDense(seg) ==
    \/ ClassesOf(seg) = {0}
    \/ \E t \in ClassesOf(seg) \ {0} : CountIn(seg, t) >= Val(call.min_anomal_per_seg)

\* the beats of the returned segment with identifier s, in selection order
ReturnedSegment(s) ==
    LET rows == SelectSeq(selection, LAMBDA row : row.segment_id = Some(s))
    IN  [k \in DOMAIN rows |-> rows[k].id]

\* the missing count of class t when segment k of collected was put to the
\* test: the count at the start of the pass less the segments kept before it
MissingWhenAccepted(before, collected, k, t) ==
    before.target_nums_missing[t]
        - SeqSum([j \in 1..(k - 1 - Len(before.collected_segments)) |->
                     CountIn(collected[Len(before.collected_segments) + j], t)])

\* C17: every segment the density-constrained picker returns is made of
\* class-0 beats only or holds at least min_anomal_per_seg beats of one
\* non-zero class, and every segment it keeps held, at the moment it was
\* kept, a class whose missing count was still positive.
C17_AcceptedSegments ==
    /\ []((Returned /\ picker = "_pick_new_style_segments") =>
            \A k \in DOMAIN selection : SegmentDense(ReturnedSegment(Val(selection[k].segment_id))))
    /\ [][(pc = "new_style" /\ pc' = "new_style") =>
            \A k \in (Len(ns.collected_segments) + 1)..Len(ns'.collected_segments) :
                /\ SegmentDense(ns'.collected_segments[k])
                /\ \E t \in ClassesOf(ns'.collected_segments[k]) \cap DOMAIN ns.target_nums_missing :
                      MissingWhenAccepted(ns, ns'.collected_segments, k, t) > 0]_vars

\* with min_anomal_per_seg = 2 a segment of two beats of one non-zero class
\* was returned next to a segment of class 0
C17_Witness ==
    /\ Returned
    /\ picker = "_pick_new_style_segments"
    /\ call.min_anomal_per_seg = Some(2)
    /\ \E k \in DOMAIN selection :
          LET seg == ReturnedSegment(Val(selection[k].segment_id))
          IN  \E t \in ClassesOf(seg) \ {0} : CountIn(seg, t) >= 2
    /\ \E k \in DOMAIN selection : annotations[selection[k].id].target = 0

\* C18: the density-constrained picker is left only by its return, with the
\* missing count of every class in target_probs <= 0; while a class is still
\* missing and the pool is exhausted, every pass leaves the missing counts as
\* they are and the call stays in the loop.
C18_OnlyExitIsReturn ==
    [][pc = "new_style" =>
          /\ pc' # "new_style" => MaxMissing(ns.target_nums_missing) <= 0
          /\ (MaxMissing(ns.target_nums_missing) > 0 /\ ns.annotations_remaining = <<>>) =>
                (pc' = "new_style" /\ ns'.target_nums_missing = ns.target_nums_missing)]_vars

\* the loop but for the KeyError of line 461 or 469: the picker is left only
\* with every missing count <= 0, and an exhausted pool with a class still
\* missing keeps the call in the loop with the counts unchanged
C18_SpinsOnExhaustedPool ==
    [][pc = "new_style" =>
          /\ (pc' # "new_style" /\ exc' # "KeyError") => MaxMissing(ns.target_nums_missing) <= 0
          /\ (MaxMissing(ns.target_nums_missing) > 0 /\ ns.annotations_remaining = <<>>) =>
                (pc' = "new_style" /\ ns'.target_nums_missing = ns.target_nums_missing)]_vars

\* the call is in the loop with an exhausted pool and a class still missing
C18_PoolExhausted ==
    /\ pc = "new_style"
    /\ ns.annotations_remaining = <<>>
    /\ MaxMissing(ns.target_nums_missing) > 0


(***************************************************************************)
(* SpecContLoop: _pick_cont_segments_inner, one pass of its while loop at  *)
(* a time                                                                  *)
(***************************************************************************)
ContRows == NumRows + 2

\* beats of one class, in one recording or two; the pool handed to the picker
\* is any selection of the rows
TablesContLoop ==
    {MakeTable([i \in 1..ContRows |-> 0], RecordingSplit(ContRows, split), NoGaps(ContRows)) :
        split \in {ContRows - 2, ContRows}}

ContCalls ==
    UNION {{[name |-> "_pick_cont_segments_inner", num_beats |-> n,
             ids |-> SelectIn([i \in 1..ContRows |-> i], S),
             min_len_segment |-> lo, max_len_segment |-> hi] :
               n \in 0..MaxNumBeats, S \in SUBSET (1..ContRows), hi \in lo..MaxLen} :
             lo \in 1..MaxLen}

InLoop(o) == o # <<>> /\ Val(o).pc = "loop"

\* lines 822-834: the runs are built, nothing is collected yet
cont_enter ==
    /\ fn # <<>>
    /\ fn.name = "_pick_cont_segments_inner"
    /\ out = <<>>
    /\ out' = Some([pc |-> "loop",
                    st |-> [num_beats |-> fn.num_beats,
                            available_segs |-> available_segs_init(annotations, fn.ids,
                                                                   fn.min_len_segment),
                            collected_segments |-> <<>>]])
    /\ UNCHANGED <<repo, fn>>

\* lines 836-876: one pass of the while loop
cont_iteration ==
    /\ InLoop(out)
    /\ ~ContLoopDone(Val(out).st)
    /\ \E nxt \in ContLoopStep(Val(out).st, fn.min_len_segment, fn.max_len_segment) :
          out' = Some([pc |-> "loop", st |-> nxt])
    /\ UNCHANGED <<repo, fn>>

\* the while condition fails or line 838 breaks; line 878 returns
cont_return ==
    /\ InLoop(out)
    /\ ContLoopDone(Val(out).st)
    /\ out' = Some([pc |-> "returned", st |-> Val(out).st])
    /\ UNCHANGED <<repo, fn>>

InitContLoop == InitUtility(TablesContLoop, ContCalls)

NextContLoop ==
    \/ cont_enter
    \/ cont_iteration
    \/ cont_return

\* the function runs on once it is called: a step that can be taken is taken
SpecContLoop == InitContLoop /\ [][NextContLoop]_vars /\ WF_vars(NextContLoop)

ContReturned == out # <<>> /\ Val(out).pc = "returned"

\* the beats in the runs of the pool, and in the segments collected
PoolSize(o) == SeqSum([k \in DOMAIN Val(o).st.available_segs |-> Len(Val(o).st.available_segs[k])])

CollectedSize(o) ==
    SeqSum([k \in DOMAIN Val(o).st.collected_segments |-> Len(Val(o).st.collected_segments[k])])

\* C19: the continuous-segment picker always returns; every pass of its loop
\* takes one run out of the pool and puts back remainders that together are
\* strictly shorter; it returns fewer than num_beats beats only when the pool
\* of runs is empty.
C19_Terminates ==
    /\ <>ContReturned
    /\ [][(InLoop(out) /\ InLoop(out')) =>
            /\ PoolSize(out') < PoolSize(out)
            /\ Len(Val(out').st.available_segs) <= Len(Val(out).st.available_segs) + 1]_vars
    /\ []((ContReturned /\ CollectedSize(out) < fn.num_beats) =>
            Val(out).st.available_segs = <<>>)

\* the pool was one run of all the rows; the picker cut two segments from it
\* (a remainder went back into the pool) and returned fewer beats than asked for
C19_Witness ==
    /\ ContReturned
    /\ CollectedSize(out) < fn.num_beats
    /\ Len(fn.ids) = ContRows
    /\ annotations[1].recording = annotations[ContRows].recording
    /\ Len(Val(out).st.collected_segments) >= 2

\* C20: for num_beats >= 1 every segment the continuous-segment picker
\* collects has at least min_len_segment and at most max_len_segment beats,
\* the segment cut to the beats still owed included.
C20_SegmentLengthsAllowed ==
    (fn # <<>> /\ fn.name = "_pick_cont_segments_inner" /\ out # <<>> /\ fn.num_beats >= 1) =>
        \A k \in DOMAIN Val(out).st.collected_segments :
            /\ Len(Val(out).st.collected_segments[k]) >= fn.min_len_segment
            /\ Len(Val(out).st.collected_segments[k]) <= fn.max_len_segment


\* C21: a pass of the continuous-segment picker that takes a run out of the
\* pool without collecting a segment happens only when no length of
\* min_len_segment..max_len_segment fits the run; in particular, for
\* min_len_segment = max_len_segment = m a pool that is one run of at least
\* 2m beats yields a segment of m beats.
C21_SkipsOnlyWhenNothingFits ==
    /\ [][(InLoop(out) /\ InLoop(out')
             /\ Val(out').st.collected_segments = Val(out).st.collected_segments) =>
            \A k \in DOMAIN Val(out).st.available_segs :
                Val(out').st.available_segs = RemoveAt(Val(out).st.available_segs, k) =>
                    \A l \in fn.min_len_segment..fn.max_len_segment :
                        l > Len(Val(out).st.available_segs[k])]_vars
    /\ []((ContReturned /\ fn.num_beats >= 1 /\ fn.min_len_segment = fn.max_len_segment
             /\ Len(fn.ids) = ContRows /\ ContRows >= 2 * fn.min_len_segment
             /\ annotations[1].recording = annotations[ContRows].recording) =>
            \E k \in DOMAIN Val(out).st.collected_segments :
                Len(Val(out).st.collected_segments[k]) = fn.min_len_segment)


(***************************************************************************)
(* SpecErrors: sessions whose calls end in the errors provide_data can     *)
(* raise, next to calls that succeed                                       *)
(***************************************************************************)
TablesErrors ==
    {MakeTable(t, RecordingSplit(NumRows, NumRows), NoGaps(NumRows)) :
        t \in [1..NumRows -> {0, 1, 2}]}

\* invalid lengths; unsupported match_segments; min_anomal_per_seg without
\* target_probs; a target_probs of no known type; the density-constrained
\* picker with classes that are no keys; the category, plain and continuous
\* pickers on a pool that runs out
SessionsErrors ==
    {Args(<<>>, NoFilter, DefaultExclude, TpNone, FALSE, <<>>, {}, 2, 1, FALSE),
     Args(<<>>, NoFilter, DefaultExclude, EvenWeights, FALSE, <<>>, {"recording"}, 1, MaxLen, FALSE),
     Args(<<>>, NoFilter, DefaultExclude, TpNone, TRUE, Some(1), {}, 1, MaxLen, FALSE),
     Args(<<>>, NoFilter, DefaultExclude, TpOther, FALSE, <<>>, {}, 1, 1, FALSE),
     Args(<<>>, NoFilter, DefaultExclude, TpDict(1 :> 1 @@ 2 :> 1), TRUE, Some(1), {}, 1, MaxLen, FALSE),
     Args(<<>>, NoFilter, DefaultExclude, TpDict(1 :> 1 @@ 2 :> 1), TRUE, Some(1), {}, 2, MaxLen, FALSE),
     Args(<<>>, NoFilter, DefaultExclude, EvenWeights, FALSE, <<>>, {"target"}, 1, MaxLen, FALSE),
     Args(<<>>, NoFilter, DefaultExclude, EvenWeights, FALSE, <<>>, {}, 1, 1, FALSE),
     Args(<<>>, NoFilter, DefaultExclude, EvenWeights, TRUE, <<>>, {}, 1, MaxLen, FALSE)}

InitErrors == InitFrom(TablesErrors, SessionsErrors)

SpecErrors == InitErrors /\ [][Next]_vars

\* C22: a provide_data call that ends in an error leaves is_used of every
\* beat as it was when the call began, and is_used changes only in the step
\* that ends a call without an error, where the beats returned become used.
C22_ErrorLeavesFlags ==
    /\ []((CallEnded /\ exc # "none") => Used(annotations) = hist.used_before)
    /\ [][Used(annotations') # Used(annotations) =>
            /\ pc' = "idle"
            /\ exc' = "none"
            /\ Used(annotations') = Used(annotations) \cup {selection'[k].id : k \in DOMAIN selection'}]_vars

\* a call ended in an error raised inside a picker after an earlier call had
\* marked some of the beats, not all
C22_Witness ==
    /\ CallEnded
    /\ exc # "none"
    /\ picker \notin {"none", "never"}
    /\ Used(annotations) # {}
    /\ Used(annotations) # DOMAIN annotations


\* the row but for is_used
Unflagged(row) == [row EXCEPT !.is_used = FALSE]

\* C23: provide_data changes nothing in the repository but is_used: no step
\* changes the rows of the annotation table, its set of columns, a value of a
\* column other than is_used, or the signal buffer.
C23_OnlyFlagsChange ==
    [][/\ DOMAIN annotations' = DOMAIN annotations
       /\ \A i \in DOMAIN annotations : Unflagged(annotations'[i]) = Unflagged(annotations[i])
       /\ columns' = columns
       /\ ecg_data' = ecg_data]_vars

\* C24: the density-constrained picker never ends in an error of its
\* missing-count bookkeeping, also when the pool holds classes that are not
\* keys of target_probs.
C24_UnknownClassTolerated ==
    (CallEnded /\ picker = "_pick_new_style_segments"
        /\ \E i \in DOMAIN annotations : annotations[i].target \notin DOMAIN call.target_probs.w) =>
        exc # "KeyError"


====
